---- MODULE Spec2Model ----
(***************************************************************************)
(* Convective heat transfer over a bank of battery cells: the functions of *)
(* function_definitions.py and the call sequence of Main.py.               *)
(*                                                                         *)
(* Python floats are carried as scaled integers.  Units:                   *)
(*   lengths (pitches, cell diameter)        0.1 mm                        *)
(*   cell length                             1e-5 m                        *)
(*   velocity                                0.01 m/s                      *)
(*   temperature                             0.01 degC                     *)
(*   density                                 1e-4 kg/m^3                   *)
(*   dynamic viscosity                       1e-9 Ns/m^2                   *)
(*   thermal conductivity                    1e-6 W/mK                     *)
(*   specific heat                           1 J/kgK                       *)
(*   Prandtl number                          1e-5                          *)
(*   Reynolds number                         1                             *)
(*   correlation constants, correction       1e-3                          *)
(*   Nusselt number, convective coefficient  1e-3                          *)
(*   natural logarithms                      1e-4                          *)
(* Every division rounds down to the unit of its result.                   *)
(***************************************************************************)
EXTENDS Integers, Sequences, FiniteSets, TLC

VARIABLES
    \* Main.py: configured inputs (lines 3-14)
    cellNumber, transversePitch, longitudinalPitch, cellDiameter, cellLength,
    numberLongitudinal, numberTransverse, freestreamTemp, velocity,
    surfaceTemp, arrangement, diametricalPitch,
    \* arguments that Main.py passes as literals (lines 18 and 21)
    longitudinalCellNumber, filmTemperature,
    \* Main.py: computed values (lines 17-29)
    fluidDensity, correctionFactor, dynamicViscosity, maxReynolds,
    freestreamPrandtl, surfacePrandtl, filmPrandtl, constantOne, constantTwo,
    nusseltNumber, fluidThermalConductivity, hBar, specificHeat, exitTemp,
    logMeanTempDif, totalHeatTransfer,
    \* control: next statement of Main.py, printed lines, raised exception,
    \* and the correlation nusseltNumberCalculation used
    pc, stdout, error, nusseltCorrelation

inputVars == <<cellNumber, transversePitch, longitudinalPitch, cellDiameter,
               cellLength, numberLongitudinal, numberTransverse,
               freestreamTemp, velocity, surfaceTemp, arrangement,
               diametricalPitch, longitudinalCellNumber, filmTemperature>>

vars == <<cellNumber, transversePitch, longitudinalPitch, cellDiameter,
          cellLength, numberLongitudinal, numberTransverse, freestreamTemp,
          velocity, surfaceTemp, arrangement, diametricalPitch,
          longitudinalCellNumber, filmTemperature,
          fluidDensity, correctionFactor, dynamicViscosity, maxReynolds,
          freestreamPrandtl, surfacePrandtl, filmPrandtl, constantOne,
          constantTwo, nusseltNumber, fluidThermalConductivity, hBar,
          specificHeat, exitTemp, logMeanTempDif, totalHeatTransfer,
          pc, stdout, error, nusseltCorrelation>>

----------------------------------------------------------------------------
(* Values *)

\* a name that has not been assigned yet
Unset == -1000000001

\* float('nan'): every arithmetic operation on it yields it again
NaN == -1000000002

IsNumber(x) == x # NaN /\ x # Unset

\* A temperature written as base - gapSign * e^(gapLn/10000) degC, the form
\* of calculateExitTemp's result surfaceTemp - e^(-x)*(surfaceTemp -
\* freestreamTemp); a plain temperature has gapSign = 0.
Temp(t) == [base |-> t, gapSign |-> 0, gapLn |-> 0]

UnsetTemp == Temp(Unset)

NaNTemp == Temp(NaN)

Max(a, b) == IF a >= b THEN a ELSE b

Abs(a) == IF a < 0 THEN -a ELSE a

\* floor(a*b/c) for c > 0 without forming a*b
MulDiv(a, b, c) == (a \div c) * b + ((a % c) * b) \div c

----------------------------------------------------------------------------
(* Property tables and numpy.interp *)

\* numpy.interp(x, xp, fp): piecewise linear between the breakpoints xp,
\* the end values outside them
Interp(x, xp, fp) ==
    IF x <= xp[1] THEN fp[1]
    ELSE IF x >= xp[Len(xp)] THEN fp[Len(xp)]
    ELSE LET j == CHOOSE i \in 1..(Len(xp) - 1) : xp[i] <= x /\ x < xp[i + 1]
         IN  fp[j] + ((fp[j + 1] - fp[j]) * (x - xp[j])) \div (xp[j + 1] - xp[j])

\* breakpoints of the Engineering Toolbox tables (viscosity, conductivity,
\* density), in 0.01 degC
celsiusDataPoints ==
    <<0, 500, 1000, 1500, 2000, 2500, 3000, 4000, 5000, 6000, 8000, 10000,
      12500>>

\* breakpoints of the Prandtl table, in 0.01 degC
prandtlCelsiusDataPoints ==
    <<0, 690, 1560, 2690, 4690, 6690, 8690, 10690, 12690>>

\* breakpoints of the specific heat table, in 0.01 degC
specificHeatCelsiusDataPoints ==
    <<0, 690, 1560, 2690, 4690, 6690, 8690, 10700, 12700>>

\* Prandtl numbers at the breakpoints, in 1e-5
prandtlNumberDataPoints ==
    <<71100, 71000, 70900, 70700, 70500, 70300, 70100, 70000, 69900>>

\* dynamic viscosity at the breakpoints, in 0.01 uNs/m^2
dynamicViscosityDataPoints ==
    <<1715, 1740, 1764, 1789, 1813, 1837, 1860, 1907, 1953, 1999, 2088, 2174,
      2279>>

\* thermal conductivity at the breakpoints, in 0.01 mW/mK
thermalConductivityDataPoints ==
    <<2436, 2474, 2512, 2550, 2587, 2624, 2662, 2735, 2808, 2880, 3023, 3162,
      3333>>

\* density at the breakpoints, in 1e-4 kg/m^3
densityDataPoints ==
    <<12920, 12680, 12460, 12250, 12040, 11840, 11640, 11270, 10930, 10600,
      10000, 9467, 8868>>

\* specific heat at the breakpoints, in 1e-4 kJ/kgK
specificHeatDataPoints ==
    <<10060, 10060, 10060, 10060, 10070, 10090, 10100, 10120, 10140>>

\* (surfaceTemp + freestreamTemp) / 2
FilmTemp(surfaceTemperature, freestreamTemperature) ==
    (surfaceTemperature + freestreamTemperature) \div 2

\* interp(...) * 10**(-6): 0.01 uNs/m^2 to 1e-9 Ns/m^2
calculateDynamicViscosity(surfaceTemperature, freestreamTemperature) ==
    Interp(FilmTemp(surfaceTemperature, freestreamTemperature),
           celsiusDataPoints, dynamicViscosityDataPoints) * 10

\* interp(...) / 1000: 0.01 mW/mK to 1e-6 W/mK
fluidThermalConductivityCalculation(surfaceTemperature, freestreamTemperature) ==
    Interp(FilmTemp(surfaceTemperature, freestreamTemperature),
           celsiusDataPoints, thermalConductivityDataPoints) * 10

calculateFluidDensity(surfaceTemperature, freestreamTemperature) ==
    Interp(FilmTemp(surfaceTemperature, freestreamTemperature),
           celsiusDataPoints, densityDataPoints)

\* interp(...) * 1000: 1e-4 kJ/kgK to J/kgK
calculateFluidSpecificHeat(surfaceTemperature, freestreamTemperature) ==
    (Interp(FilmTemp(surfaceTemperature, freestreamTemperature),
            specificHeatCelsiusDataPoints, specificHeatDataPoints) * 1000)
        \div 10000

\* the tuple (freestream, surface, film); the film entry stays 0 when the
\* filmTemperature argument is 0, its default
prandtlNumberCalculation(surfaceTemperature, freestreamTemperature, filmTemp) ==
    LET surface == Interp(surfaceTemperature, prandtlCelsiusDataPoints,
                          prandtlNumberDataPoints)
        freestream == Interp(freestreamTemperature, prandtlCelsiusDataPoints,
                             prandtlNumberDataPoints)
    IN  IF filmTemp # 0
        THEN <<freestream, surface,
               Interp(filmTemp, prandtlCelsiusDataPoints,
                      prandtlNumberDataPoints)>>
        ELSE <<freestream, surface, 0>>

----------------------------------------------------------------------------
(* correctionFactorCalc *)

alignedCorrectionFactorDict ==
    <<700, 800, 860, 900, 920, 935, 950, 960, 965, 970, 975, 980, 980, 983,
      986, 990>>

staggeredCorrectionFactorDict ==
    <<640, 760, 840, 890, 920, 935, 950, 960, 965, 970, 975, 980, 980, 983,
      986, 990>>

\* the dictionary chosen by the arrangement; empty for any other string
CorrectionFactorDict(arr) ==
    IF arr = "aligned" THEN alignedCorrectionFactorDict
    ELSE IF arr = "staggered" THEN staggeredCorrectionFactorDict
    ELSE << >>

\* correctionFactorCalc reading the dictionary from key 0 instead of key 1
correctionFactorCalcFromZero(arr, rows) ==
    IF rows + 1 \in DOMAIN CorrectionFactorDict(arr)
    THEN CorrectionFactorDict(arr)[rows + 1]
    ELSE 1000

\* correctionFactorDict.get(longitudinalCellNumber, 1)
correctionFactorCalc(arr, rows) ==
    IF rows \in DOMAIN CorrectionFactorDict(arr)
    THEN CorrectionFactorDict(arr)[rows]
    ELSE 1000

----------------------------------------------------------------------------
(* math.log, math.exp and ** on scaled integers *)

RECURSIVE Log2Floor(_, _)
\* the k with d * 2^k <= n < d * 2^(k+1), for n >= d > 0
Log2Floor(n, d) == IF n \div 2 < d THEN 0 ELSE 1 + Log2Floor(n, 2 * d)

\* 10000 * ln(n/d) for d <= n < 2d, by the series 2(z + z^3/3 + z^5/5 + z^7/7)
\* with z = (n - d)/(n + d)
LnMantissa(n, d) ==
    LET s  == n \div 100000 + 1
        a  == n \div s
        b  == d \div s
        z  == ((a - b) * 10000) \div (a + b)
        z2 == (z * z) \div 10000
        z3 == (z2 * z) \div 10000
        z5 == (z3 * z2) \div 10000
        z7 == (z5 * z2) \div 10000
    IN  2 * (z + z3 \div 3 + z5 \div 5 + z7 \div 7)

\* 10000 * ln(n/d) for n >= d > 0
LnUp(n, d) ==
    LET k == Log2Floor(n, d)
    IN  (k * 693147) \div 100 + LnMantissa(n, d * 2^k)

\* math.log: 10000 * ln(n/d) for n > 0, d > 0
Ln(n, d) == IF n >= d THEN LnUp(n, d) ELSE -LnUp(d, n)

RECURSIVE ExpSeries(_, _, _)
\* the terms i.. of 10000 * e^(r/10000), term being the one before
ExpSeries(r, term, i) ==
    IF i > 8 THEN 0
    ELSE LET next == (term * r) \div (10000 * i)
         IN  next + ExpSeries(r, next, i + 1)

\* math.exp: 1000 * e^(t/10000), as 2^k * e^r with 0 <= r < ln 2
Exp(t) ==
    LET k == (t * 100) \div 693147
        r == (t * 100 - k * 693147) \div 100
        e == 10000 + ExpSeries(r, 10000, 1)
    IN  IF k > 16 THEN (e \div 10) * 2^k
        ELSE IF k >= 0 THEN (e * 2^k) \div 10
        ELSE IF k >= -27 THEN e \div (10 * 2^(-k))
        ELSE 0

\* (n/d) ** (p/1000) in 1e-3, for n >= 0, d > 0, p > 0
Pow(n, d, p) == IF n = 0 THEN 0 ELSE Exp((p * Ln(n, d)) \div 1000)

----------------------------------------------------------------------------
(* findMaxReynolds *)

\* (transversePitch / (transversePitch - cellDiameter)) * freestreamVelocity
velocity1(tPitch, diameter, v) == (tPitch * v) \div (tPitch - diameter)

\* velocity2 without the factor 2 of the two diagonal gaps
velocity2OneGap(tPitch, dPitch, diameter, v) ==
    (tPitch * v) \div (dPitch - diameter)

\* (transversePitch / (2 * (diametricalPitch - cellDiameter))) * freestreamVelocity
velocity2(tPitch, dPitch, diameter, v) ==
    (tPitch * v) \div (2 * (dPitch - diameter))

\* max(velocity1, velocity2)
velocityMax(tPitch, dPitch, diameter, v) ==
    Max(velocity1(tPitch, diameter, v), velocity2(tPitch, dPitch, diameter, v))

\* (airDensity * velocity * cellDiameter / 1000) / dynamicViscosity
ReynoldsOf(airDensity, vel, diameter, viscosity) ==
    MulDiv(airDensity * vel, diameter, 10 * viscosity)

\* the returned Reynolds number, or the ZeroDivisionError of a zero gap
findMaxReynolds(airDensity, diameter, viscosity, tPitch, v, dPitch) ==
    IF tPitch = diameter \/ dPitch = diameter
    THEN [value |-> Unset, error |-> "ZeroDivisionError"]
    ELSE [value |-> ReynoldsOf(airDensity,
                               velocityMax(tPitch, dPitch, diameter, v),
                               diameter, viscosity),
          error |-> "none"]

----------------------------------------------------------------------------
(* constantCalculation *)

AlignedInefficient ==
    "aligned tubes are inefficient in this geometry case. A staggered arrangement should be used instead."

ReynoldsTooLarge ==
    "The Reynold's number for this case too large, try reducing flow rate"

ReynoldsTooSmall ==
    "The Reynold's number for this case too small, try increasing flow rate"

Constants(c1, c2, printed) ==
    [constantOne |-> c1, constantTwo |-> c2, printed |-> printed,
     error |-> "none"]

\* InBand with the upper limit included: lo <= maxReynolds <= hi
InBandInclusive(lo, re, hi) == re # NaN /\ lo <= re /\ re <= hi

\* lo <= maxReynolds < hi; a NaN compares false
InBand(lo, re, hi) == re # NaN /\ lo <= re /\ re < hi

\* TooLarge with the limit included: maxReynolds >= 2 * (10 ** 6)
TooLargeInclusive(re) == re # NaN /\ re >= 2000000

\* maxReynolds > 2 * (10 ** 6)
TooLarge(re) == re # NaN /\ re > 2000000

\* maxReynolds < 10
TooSmall(re) == re # NaN /\ re < 10

\* AlignedRatioAbove with the limit included: ratio >= .7
AlignedRatioAtLeast(tPitch, lPitch) == 10 * tPitch >= 7 * lPitch

\* transversePitch / longitudinalPitch > .7, for longitudinalPitch > 0
AlignedRatioAbove(tPitch, lPitch) == 10 * tPitch > 7 * lPitch

\* transversePitch / longitudinalPitch < .7
AlignedRatioBelow(tPitch, lPitch) == 10 * tPitch < 7 * lPitch

\* StaggeredRatioBelow with the limit included: ratio <= 2
StaggeredRatioAtMost(tPitch, lPitch) == tPitch <= 2 * lPitch

\* transversePitch / longitudinalPitch < 2
StaggeredRatioBelow(tPitch, lPitch) == tPitch < 2 * lPitch

\* transversePitch / longitudinalPitch > 2
StaggeredRatioAbove(tPitch, lPitch) == tPitch > 2 * lPitch

\* .35 * ((transversePitch / longitudinalPitch) ** .2)
StaggeredConstantOne(tPitch, lPitch) ==
    (350 * Pow(tPitch, lPitch, 200)) \div 1000

DivisionByZero ==
    [constantOne |-> 0, constantTwo |-> 0, printed |-> << >>,
     error |-> "ZeroDivisionError"]

\* the branch for arrangement == "aligned"; the pitch ratio is computed,
\* whatever the Reynolds number, once the first two tests have failed
AlignedConstants(re, tPitch, lPitch) ==
    IF InBand(10, re, 100) THEN Constants(800, 400, << >>)
    ELSE IF InBand(100, re, 1000) THEN Constants(0, 0, << >>)
    ELSE IF lPitch = 0 THEN DivisionByZero
    ELSE IF InBand(1000, re, 200000) /\ AlignedRatioAbove(tPitch, lPitch)
    THEN Constants(270, 630, << >>)
    ELSE IF InBand(1000, re, 200000) /\ AlignedRatioBelow(tPitch, lPitch)
    THEN Constants(0, 0, <<AlignedInefficient>>)
    ELSE IF InBand(200000, re, 2000000) THEN Constants(21, 840, << >>)
    ELSE IF TooLarge(re) THEN Constants(0, 0, <<ReynoldsTooLarge>>)
    ELSE IF TooSmall(re) THEN Constants(0, 0, <<ReynoldsTooSmall>>)
    ELSE Constants(0, 0, << >>)

\* the branch for arrangement == "staggered"
StaggeredConstants(re, tPitch, lPitch) ==
    IF InBand(10, re, 100) THEN Constants(900, 400, << >>)
    ELSE IF InBand(100, re, 1000) THEN Constants(0, 0, << >>)
    ELSE IF lPitch = 0 THEN DivisionByZero
    ELSE IF InBand(1000, re, 200000) /\ StaggeredRatioBelow(tPitch, lPitch)
    THEN Constants(StaggeredConstantOne(tPitch, lPitch), 600, << >>)
    ELSE IF InBand(1000, re, 200000) /\ StaggeredRatioAbove(tPitch, lPitch)
    THEN Constants(400, 600, << >>)
    ELSE IF InBand(200000, re, 2000000) THEN Constants(22, 840, << >>)
    ELSE IF TooLarge(re) THEN Constants(0, 0, <<ReynoldsTooLarge>>)
    ELSE IF TooSmall(re) THEN Constants(0, 0, <<ReynoldsTooSmall>>)
    ELSE Constants(0, 0, << >>)

constantCalculation(re, tPitch, lPitch, arr) ==
    IF arr = "aligned" THEN AlignedConstants(re, tPitch, lPitch)
    ELSE IF arr = "staggered" THEN StaggeredConstants(re, tPitch, lPitch)
    ELSE Constants(0, 0, << >>)

----------------------------------------------------------------------------
(* nusseltNumberCalculation and calculateAverageConvectiveCoefficient *)

\* maxReynolds ** exponent; a negative numpy float gives nan
ReynoldsPow(re, p) ==
    IF re = NaN \/ re < 0 THEN NaN ELSE Pow(re, 1, p)

\* a * b / 1000 on numbers in 1e-3, nan if either is
Times(a, b) == IF a = NaN \/ b = NaN THEN NaN ELSE MulDiv(a, b, 1000)

\* .683 * (maxReynolds ** .466) * (filmPrandtl ** 1 / 3)
CylinderNusselt(re, surfaceTemperature, freestreamTemperature) ==
    LET film == prandtlNumberCalculation(
                    0, 0, FilmTemp(surfaceTemperature, freestreamTemperature))[3]
    IN  Times(Times(683, ReynoldsPow(re, 466)), (film \div 3) \div 100)

\* constantOne * (maxReynolds ** constantTwo) * (freestreamPrandtl ** .36)
\*     * ((freestreamPrandtl / surfacePrandtl) ** .25)
BankNusselt(c1, c2, re, sPrandtl, fPrandtl) ==
    Times(Times(Times(ReynoldsPow(re, c2), c1), Pow(fPrandtl, 100000, 360)),
          Pow(fPrandtl, sPrandtl, 250))

\* the single-cylinder correlation when both constants are zero, else the
\* tube-bank correlation; either times the correction factor
nusseltNumberCalculation(c1, c2, re, sPrandtl, fPrandtl, surfaceTemperature, freestreamTemperature, factor) ==
    IF c1 = 0 /\ c2 = 0
    THEN [value |-> Times(CylinderNusselt(re, surfaceTemperature,
                                          freestreamTemperature), factor),
          correlation |-> "cylinder"]
    ELSE [value |-> Times(BankNusselt(c1, c2, re, sPrandtl, fPrandtl), factor),
          correlation |-> "bank"]

\* nusseltNumber * fluidThermalConductivity / (cellDiameter/1000)
calculateAverageConvectiveCoefficient(conductivity, diameter, nusselt) ==
    IF nusselt = NaN THEN NaN ELSE MulDiv(nusselt, conductivity, 100 * diameter)

----------------------------------------------------------------------------
(* calculateExitTemp *)

\* the magnitude x of the argument of exp, in 1e-4:
\* (3.14159 * cellDiameter / 1000 * cellNumber * averageConvectiveCoef) /
\* (filmTempDensity * freestreamVelocity * cellNumberTransverse *
\*  transversePitch / 1000 * filmTempSpecificHeat); a positive quotient
\* below the unit counts as one unit
ExitExponent(diameter, cells, coef, density, v, cellsTransverse, tPitch, heat) ==
    LET perHeat   == MulDiv(coef, 1000, heat)
        perPitch  == MulDiv(perHeat, diameter * cells, cellsTransverse * tPitch)
        perMass   == MulDiv(perPitch, 10000, density)
        perSecond == MulDiv(perMass, 100, v)
        x         == MulDiv(perSecond, 3927, 125000)
    IN  IF coef > 0 /\ x = 0 THEN 1 ELSE x

\* floor(log2(n/d)) for n > 0, d > 0
BinaryExponent(n, d) ==
    IF n >= d THEN Log2Floor(n, d)
    ELSE LET k == Log2Floor(d, n)
         IN  IF d = n * 2^k THEN -k ELSE -(k + 1)

\* 10000 * ln of the largest gap that a float subtraction surfaceTemp - gap
\* rounds away: half the spacing of the 53-bit floats next to surfaceTemp
\* on the side of the result (the spacing halves below a power of two)
AbsorbedBelow(surfaceTemperature, towardZero) ==
    LET e == BinaryExponent(Abs(surfaceTemperature), 100)
        p == IF towardZero /\ Abs(surfaceTemperature) = 100 * 2^e
             THEN 54 ELSE 53
    IN  ((e - p) * 693147) \div 100

\* -((exp(-x) * (surfaceTemp - freestreamTemp)) - surfaceTemp): the surface
\* temperature less the gap e^(-x) * (surfaceTemp - freestreamTemp).  exp
\* underflows to 0.0 beyond x = 745.13, and the subtraction returns
\* surfaceTemp itself when the gap is below half a unit in its last place.
calculateExitTemp(diameter, cells, coef, density, v, cellsTransverse, tPitch, heat, surfaceTemperature, freestreamTemperature) ==
    IF coef = NaN THEN NaNTemp
    ELSE IF surfaceTemperature = freestreamTemperature
    THEN Temp(surfaceTemperature)
    ELSE LET x    == ExitExponent(diameter, cells, coef, density, v,
                                  cellsTransverse, tPitch, heat)
             diff == surfaceTemperature - freestreamTemperature
             sign == IF diff > 0 THEN 1 ELSE -1
             gap  == Ln(Abs(diff), 100) - x
             towardZero == (surfaceTemperature > 0) = (diff > 0)
         IN  IF x > 7451300 THEN Temp(surfaceTemperature)
             ELSE IF surfaceTemperature # 0
                     /\ gap < AbsorbedBelow(surfaceTemperature, towardZero)
             THEN Temp(surfaceTemperature)
             ELSE [base |-> surfaceTemperature, gapSign |-> sign,
                   gapLn |-> gap]

\* a temperature to the nearest 0.01 degC towards its base (exp is in 1e-3)
Centi(t) ==
    IF t.gapSign = 0 THEN t.base
    ELSE t.base - t.gapSign * (Exp(t.gapLn) \div 10)

----------------------------------------------------------------------------
(* calculateLogMeanTempDifference and calculateTotalHeatTransfer *)

Sign(a) == IF a > 0 THEN 1 ELSE IF a < 0 THEN -1 ELSE 0

\* deltaTwo = surfaceTemperature - exitTemperature as sign, 10000 * ln of
\* the magnitude in degC, and the value in 0.01 degC
DeltaTwo(surfaceTemperature, exit) ==
    IF exit.gapSign # 0 /\ exit.base = surfaceTemperature
    THEN [sign |-> exit.gapSign, ln |-> exit.gapLn,
          centi |-> surfaceTemperature - Centi(exit)]
    ELSE LET d == surfaceTemperature - Centi(exit)
         IN  [sign |-> Sign(d),
              ln |-> IF d = 0 THEN 0 ELSE Ln(Abs(d), 100),
              centi |-> d]

\* LogOfRatio made to return a unit for equal deltas, so that the division
\* by it never fails
LogOfRatioNeverZero(deltaOne, deltaTwo) ==
    LET l == Ln(Abs(deltaOne), 100) - deltaTwo.ln
    IN  IF l # 0 THEN l
        ELSE IF Abs(deltaOne) < Abs(deltaTwo.centi) THEN -1
        ELSE 1

\* 10000 * log(deltaOne / deltaTwo) for deltas of one sign; it is zero only
\* when the two are equal
LogOfRatio(deltaOne, deltaTwo) ==
    LET l == Ln(Abs(deltaOne), 100) - deltaTwo.ln
    IN  IF l # 0 THEN l
        ELSE IF Abs(deltaOne) > Abs(deltaTwo.centi) THEN 1
        ELSE IF Abs(deltaOne) < Abs(deltaTwo.centi) THEN -1
        ELSE 0

\* math.log is defined for a positive argument only; given the sign of
\* deltaOne / deltaTwo
LogDefined(ratioSign) == ratioSign > 0

\* (deltaOne - deltaTwo) / log(deltaOne / deltaTwo): the division raises
\* ZeroDivisionError for deltaTwo = 0 and for a logarithm of 0, math.log
\* raises ValueError for a ratio <= 0, and a nan passes through
calculateLogMeanTempDifference(surfaceTemperature, freestreamTemperature, exit) ==
    LET deltaOne == surfaceTemperature - freestreamTemperature
        deltaTwo == DeltaTwo(surfaceTemperature, exit)
        l        == LogOfRatio(deltaOne, deltaTwo)
    IN  IF exit.base = NaN THEN [value |-> NaN, error |-> "none"]
        ELSE IF deltaTwo.sign = 0
        THEN [value |-> Unset, error |-> "ZeroDivisionError"]
        ELSE IF ~LogDefined(Sign(deltaOne) * deltaTwo.sign)
        THEN [value |-> Unset, error |-> "ValueError"]
        ELSE IF l = 0
        THEN [value |-> Unset, error |-> "ZeroDivisionError"]
        ELSE [value |-> ((deltaOne - deltaTwo.centi) * 10000) \div l,
              error |-> "none"]

\* cellNumber * averageConvectiveCoef * 3.14159 * cellDiameter/1000
\*     * logMeanTempDif * cellLength, in 1e-3 W
calculateTotalHeatTransfer(cells, coef, diameter, logMean, length) ==
    IF coef = NaN \/ logMean = NaN THEN NaN
    ELSE LET perKelvin == MulDiv(MulDiv(coef, cells * diameter, 10000),
                                 31416, 10000)
         IN  MulDiv(MulDiv(perKelvin, logMean, 100), length \div 10, 10000)

----------------------------------------------------------------------------
(* The statements of Main.py.  Each is one call; `at` is the position of  *)
(* the call and `next` the position after it returns.  An exception ends  *)
(* the run: pc becomes "raised" and error holds the exception.            *)

\* fluidDensity = calculateFluidDensity(surfaceTemp, freestreamTemp)
DensityStep(at, next) ==
    /\ pc = at
    /\ fluidDensity' = calculateFluidDensity(surfaceTemp, freestreamTemp)
    /\ pc' = next
    /\ UNCHANGED <<inputVars, correctionFactor, dynamicViscosity,
                   maxReynolds, freestreamPrandtl, surfacePrandtl,
                   filmPrandtl, constantOne, constantTwo, nusseltNumber,
                   fluidThermalConductivity, hBar, specificHeat, exitTemp,
                   logMeanTempDif, totalHeatTransfer, stdout, error,
                   nusseltCorrelation>>

\* correctionFactor = correctionFactorCalc(arrangement, <rows>)
CorrectionFactorStep(at, next) ==
    /\ pc = at
    /\ correctionFactor' = correctionFactorCalc(arrangement,
                                            longitudinalCellNumber)
    /\ pc' = next
    /\ UNCHANGED <<inputVars, fluidDensity, dynamicViscosity, maxReynolds,
                   freestreamPrandtl, surfacePrandtl, filmPrandtl,
                   constantOne, constantTwo, nusseltNumber,
                   fluidThermalConductivity, hBar, specificHeat, exitTemp,
                   logMeanTempDif, totalHeatTransfer, stdout, error,
                   nusseltCorrelation>>

\* dynamicViscosity = calculateDynamicViscosity(surfaceTemp, freestreamTemp)
ViscosityStep(at, next) ==
    /\ pc = at
    /\ dynamicViscosity' = calculateDynamicViscosity(surfaceTemp,
                                                    freestreamTemp)
    /\ pc' = next
    /\ UNCHANGED <<inputVars, fluidDensity, correctionFactor, maxReynolds,
                   freestreamPrandtl, surfacePrandtl, filmPrandtl,
                   constantOne, constantTwo, nusseltNumber,
                   fluidThermalConductivity, hBar, specificHeat, exitTemp,
                   logMeanTempDif, totalHeatTransfer, stdout, error,
                   nusseltCorrelation>>

\* maxReynolds = findMaxReynolds(fluidDensity, cellDiameter, dynamicViscosity,
\*     transversePitch, velocity, diametricalPitch)
ReynoldsStep(at, next) ==
    /\ pc = at
    /\ LET r == findMaxReynolds(fluidDensity, cellDiameter, dynamicViscosity,
                                transversePitch, velocity, diametricalPitch)
       IN  IF r.error = "none"
           THEN maxReynolds' = r.value /\ pc' = next /\ error' = error
           ELSE maxReynolds' = maxReynolds /\ pc' = "raised"
                /\ error' = r.error
    /\ UNCHANGED <<inputVars, fluidDensity, correctionFactor,
                   dynamicViscosity, freestreamPrandtl, surfacePrandtl,
                   filmPrandtl, constantOne, constantTwo, nusseltNumber,
                   fluidThermalConductivity, hBar, specificHeat, exitTemp,
                   logMeanTempDif, totalHeatTransfer, stdout,
                   nusseltCorrelation>>

\* freestreamPrandtl, surfacePrandtl, filmPrandtl =
\*     prandtlNumberCalculation(surfaceTemp, freestreamTemp, <film temperature>)
PrandtlStep(at, next) ==
    /\ pc = at
    /\ LET r == prandtlNumberCalculation(surfaceTemp, freestreamTemp,
                                         filmTemperature)
       IN  /\ freestreamPrandtl' = r[1]
           /\ surfacePrandtl' = r[2]
           /\ filmPrandtl' = r[3]
    /\ pc' = next
    /\ UNCHANGED <<inputVars, fluidDensity, correctionFactor,
                   dynamicViscosity, maxReynolds, constantOne, constantTwo,
                   nusseltNumber, fluidThermalConductivity, hBar,
                   specificHeat, exitTemp, logMeanTempDif, totalHeatTransfer,
                   stdout, error, nusseltCorrelation>>

\* constantOne, constantTwo = constantCalculation(maxReynolds, transversePitch,
\*     longitudinalPitch, arrangement)
ConstantStep(at, next) ==
    /\ pc = at
    /\ LET r == constantCalculation(maxReynolds, transversePitch,
                                    longitudinalPitch, arrangement)
       IN  /\ stdout' = stdout \o r.printed
           /\ IF r.error = "none"
              THEN /\ constantOne' = r.constantOne
                   /\ constantTwo' = r.constantTwo
                   /\ pc' = next
                   /\ error' = error
              ELSE /\ UNCHANGED <<constantOne, constantTwo>>
                   /\ pc' = "raised"
                   /\ error' = r.error
    /\ UNCHANGED <<inputVars, fluidDensity, correctionFactor,
                   dynamicViscosity, maxReynolds, freestreamPrandtl,
                   surfacePrandtl, filmPrandtl, nusseltNumber,
                   fluidThermalConductivity, hBar, specificHeat, exitTemp,
                   logMeanTempDif, totalHeatTransfer, nusseltCorrelation>>

\* nusseltNumber = nusseltNumberCalculation(constantOne, constantTwo,
\*     maxReynolds, surfacePrandtl, freestreamPrandtl, surfaceTemp,
\*     freestreamTemp, correctionFactor)
NusseltStep(at, next) ==
    /\ pc = at
    /\ LET r == nusseltNumberCalculation(constantOne, constantTwo, maxReynolds,
                                         surfacePrandtl, freestreamPrandtl,
                                         surfaceTemp, freestreamTemp,
                                         correctionFactor)
       IN  /\ nusseltNumber' = r.value
           /\ nusseltCorrelation' = r.correlation
    /\ pc' = next
    /\ UNCHANGED <<inputVars, fluidDensity, correctionFactor,
                   dynamicViscosity, maxReynolds, freestreamPrandtl,
                   surfacePrandtl, filmPrandtl, constantOne, constantTwo,
                   fluidThermalConductivity, hBar, specificHeat, exitTemp,
                   logMeanTempDif, totalHeatTransfer, stdout, error>>

\* fluidThermalConductivity =
\*     fluidThermalConductivityCalculation(surfaceTemp, freestreamTemp)
ConductivityStep(at, next) ==
    /\ pc = at
    /\ fluidThermalConductivity' =
           fluidThermalConductivityCalculation(surfaceTemp, freestreamTemp)
    /\ pc' = next
    /\ UNCHANGED <<inputVars, fluidDensity, correctionFactor,
                   dynamicViscosity, maxReynolds, freestreamPrandtl,
                   surfacePrandtl, filmPrandtl, constantOne, constantTwo,
                   nusseltNumber, hBar, specificHeat, exitTemp,
                   logMeanTempDif, totalHeatTransfer, stdout, error,
                   nusseltCorrelation>>

\* hBar = calculateAverageConvectiveCoefficient(fluidThermalConductivity,
\*     cellDiameter, nusseltNumber)
ConvectiveCoefficientStep(at, next) ==
    /\ pc = at
    /\ hBar' = calculateAverageConvectiveCoefficient(fluidThermalConductivity,
                                                    cellDiameter, nusseltNumber)
    /\ pc' = next
    /\ UNCHANGED <<inputVars, fluidDensity, correctionFactor,
                   dynamicViscosity, maxReynolds, freestreamPrandtl,
                   surfacePrandtl, filmPrandtl, constantOne, constantTwo,
                   nusseltNumber, fluidThermalConductivity, specificHeat,
                   exitTemp, logMeanTempDif, totalHeatTransfer, stdout,
                   error, nusseltCorrelation>>

\* specificHeat = calculateFluidSpecificHeat(surfaceTemp, freestreamTemp)
SpecificHeatStep(at, next) ==
    /\ pc = at
    /\ specificHeat' = calculateFluidSpecificHeat(surfaceTemp, freestreamTemp)
    /\ pc' = next
    /\ UNCHANGED <<inputVars, fluidDensity, correctionFactor,
                   dynamicViscosity, maxReynolds, freestreamPrandtl,
                   surfacePrandtl, filmPrandtl, constantOne, constantTwo,
                   nusseltNumber, fluidThermalConductivity, hBar, exitTemp,
                   logMeanTempDif, totalHeatTransfer, stdout, error,
                   nusseltCorrelation>>

\* exitTemp = calculateExitTemp(cellDiameter, cellNumber, hBar, fluidDensity,
\*     velocity, numberTransverse, transversePitch, specificHeat, surfaceTemp,
\*     freestreamTemp)
ExitTempStep(at, next) ==
    /\ pc = at
    /\ exitTemp' = calculateExitTemp(cellDiameter, cellNumber, hBar,
                                    fluidDensity, velocity, numberTransverse,
                                    transversePitch, specificHeat, surfaceTemp,
                                    freestreamTemp)
    /\ pc' = next
    /\ UNCHANGED <<inputVars, fluidDensity, correctionFactor,
                   dynamicViscosity, maxReynolds, freestreamPrandtl,
                   surfacePrandtl, filmPrandtl, constantOne, constantTwo,
                   nusseltNumber, fluidThermalConductivity, hBar,
                   specificHeat, logMeanTempDif, totalHeatTransfer, stdout,
                   error, nusseltCorrelation>>

\* logMeanTempDif = calculateLogMeanTempDifference(surfaceTemp, freestreamTemp,
\*     exitTemp)
LogMeanStep(at, next) ==
    /\ pc = at
    /\ LET r == calculateLogMeanTempDifference(surfaceTemp, freestreamTemp,
                                               exitTemp)
       IN  IF r.error = "none"
           THEN logMeanTempDif' = r.value /\ pc' = next /\ error' = error
           ELSE logMeanTempDif' = logMeanTempDif /\ pc' = "raised"
                /\ error' = r.error
    /\ UNCHANGED <<inputVars, fluidDensity, correctionFactor,
                   dynamicViscosity, maxReynolds, freestreamPrandtl,
                   surfacePrandtl, filmPrandtl, constantOne, constantTwo,
                   nusseltNumber, fluidThermalConductivity, hBar,
                   specificHeat, exitTemp, totalHeatTransfer, stdout,
                   nusseltCorrelation>>

\* totalHeatTransfer = calculateTotalHeatTransfer(cellNumber, hBar,
\*     cellDiameter, logMeanTempDif, cellLength)
TotalHeatStep(at, next) ==
    /\ pc = at
    /\ totalHeatTransfer' = calculateTotalHeatTransfer(cellNumber, hBar,
                                                      cellDiameter,
                                                      logMeanTempDif, cellLength)
    /\ pc' = next
    /\ UNCHANGED <<inputVars, fluidDensity, correctionFactor,
                   dynamicViscosity, maxReynolds, freestreamPrandtl,
                   surfacePrandtl, filmPrandtl, constantOne, constantTwo,
                   nusseltNumber, fluidThermalConductivity, hBar,
                   specificHeat, exitTemp, logMeanTempDif, stdout, error,
                   nusseltCorrelation>>

\* print("Exit temperature of the air:" + str(exitTemp));
\* print("Total heat transfer:" + str(totalHeatTransfer))
PrintStep(at, next) ==
    /\ pc = at
    /\ stdout' = stdout \o <<"Exit temperature of the air:",
                              "Total heat transfer:">>
    /\ pc' = next
    /\ UNCHANGED <<inputVars, fluidDensity, correctionFactor,
                   dynamicViscosity, maxReynolds, freestreamPrandtl,
                   surfacePrandtl, filmPrandtl, constantOne, constantTwo,
                   nusseltNumber, fluidThermalConductivity, hBar,
                   specificHeat, exitTemp, logMeanTempDif, totalHeatTransfer,
                   error, nusseltCorrelation>>

----------------------------------------------------------------------------
(* Main.py run from its first statement on a configuration *)

\* arrangement, cellDiameter, transversePitch, diametricalPitch: the
\* configuration of Main.py, the staggered example, and pitches at and
\* below the cell diameter
Geometries ==
    { <<"aligned", 185, 200, 0>>,
      <<"staggered", 180, 225, 203>>,
      <<"aligned", 185, 185, 0>>,
      <<"aligned", 185, 150, 0>>,
      <<"staggered", 180, 150, 203>> }

CellNumbers == {180, 1800}

RowNumbers == {5, 10, 45}

Temperatures == {3000, 6000}

Velocities == {5, 250}

\* Main.py lines 3-14, with the configured values drawn from the sets above;
\* the literals 10 (line 18) and 45 (line 21) are the ones of Main.py
Init ==
    /\ \E g \in Geometries :
           /\ arrangement = g[1]
           /\ cellDiameter = g[2]
           /\ transversePitch = g[3]
           /\ diametricalPitch = g[4]
    /\ cellNumber \in CellNumbers
    /\ longitudinalPitch = 185
    /\ cellLength = 32535
    /\ numberLongitudinal \in RowNumbers
    /\ numberTransverse = 4
    /\ freestreamTemp \in Temperatures
    /\ velocity \in Velocities
    /\ surfaceTemp \in Temperatures
    /\ longitudinalCellNumber = 10
    /\ filmTemperature = 4500
    /\ fluidDensity = Unset
    /\ correctionFactor = Unset
    /\ dynamicViscosity = Unset
    /\ maxReynolds = Unset
    /\ freestreamPrandtl = Unset
    /\ surfacePrandtl = Unset
    /\ filmPrandtl = Unset
    /\ constantOne = Unset
    /\ constantTwo = Unset
    /\ nusseltNumber = Unset
    /\ fluidThermalConductivity = Unset
    /\ hBar = Unset
    /\ specificHeat = Unset
    /\ exitTemp = UnsetTemp
    /\ logMeanTempDif = Unset
    /\ totalHeatTransfer = Unset
    /\ pc = "L17"
    /\ stdout = << >>
    /\ error = "none"
    /\ nusseltCorrelation = "none"

Main17 == DensityStep("L17", "L18")

Main18 == CorrectionFactorStep("L18", "L19")

Main19 == ViscosityStep("L19", "L20")

Main20 == ReynoldsStep("L20", "L21")

Main21 == PrandtlStep("L21", "L22")

Main22 == ConstantStep("L22", "L23")

Main23 == NusseltStep("L23", "L24")

Main24 == ConductivityStep("L24", "L25")

Main25 == ConvectiveCoefficientStep("L25", "L26")

Main26 == SpecificHeatStep("L26", "L27")

Main27 == ExitTempStep("L27", "L28")

Main28 == LogMeanStep("L28", "L29")

Main29 == TotalHeatStep("L29", "L30")

Main30 == PrintStep("L30", "done")

Next ==
    \/ Main17
    \/ Main18
    \/ Main19
    \/ Main20
    \/ Main21
    \/ Main22
    \/ Main23
    \/ Main24
    \/ Main25
    \/ Main26
    \/ Main27
    \/ Main28
    \/ Main29
    \/ Main30

Spec == Init /\ [][Next]_vars

----------------------------------------------------------------------------
(* correctionFactorCalc called on its own *)

Arrangements == {"aligned", "staggered"}

\* the largest row count tried
MaxRows == 32

\* a call correctionFactorCalc(arrangement, longitudinalCellNumber)
InitCorrection ==
    /\ cellNumber = 180
    /\ transversePitch = 200
    /\ longitudinalPitch = 185
    /\ cellDiameter = 185
    /\ cellLength = 32535
    /\ numberLongitudinal = 45
    /\ numberTransverse = 4
    /\ freestreamTemp = 3000
    /\ velocity = 250
    /\ surfaceTemp = 6000
    /\ arrangement \in Arrangements
    /\ diametricalPitch = 0
    /\ longitudinalCellNumber \in 0..MaxRows
    /\ filmTemperature = 4500
    /\ fluidDensity = Unset
    /\ correctionFactor = Unset
    /\ dynamicViscosity = Unset
    /\ maxReynolds = Unset
    /\ freestreamPrandtl = Unset
    /\ surfacePrandtl = Unset
    /\ filmPrandtl = Unset
    /\ constantOne = Unset
    /\ constantTwo = Unset
    /\ nusseltNumber = Unset
    /\ fluidThermalConductivity = Unset
    /\ hBar = Unset
    /\ specificHeat = Unset
    /\ exitTemp = UnsetTemp
    /\ logMeanTempDif = Unset
    /\ totalHeatTransfer = Unset
    /\ pc = "correctionFactorCalc"
    /\ stdout = << >>
    /\ error = "none"
    /\ nusseltCorrelation = "none"

CallCorrectionFactorCalc ==
    CorrectionFactorStep("correctionFactorCalc", "returned")

NextCorrection == CallCorrectionFactorCalc

SpecCorrection == InitCorrection /\ [][NextCorrection]_vars

\* C5: for both arrangements and every row count 1..16 the call returns the
\* entry of that arrangement's table (aligned/16 = 0.99, staggered/1 =
\* 0.64), for every other row count it returns 1.0, and every returned
\* factor lies in (0, 1].
C5_CorrectionFactor ==
    pc = "returned" =>
        /\ (arrangement = "aligned" /\ longitudinalCellNumber \in 1..16)
               => correctionFactor =
                      alignedCorrectionFactorDict[longitudinalCellNumber]
        /\ (arrangement = "staggered" /\ longitudinalCellNumber \in 1..16)
               => correctionFactor =
                      staggeredCorrectionFactorDict[longitudinalCellNumber]
        /\ (arrangement = "aligned" /\ longitudinalCellNumber = 16)
               => correctionFactor = 990
        /\ (arrangement = "staggered" /\ longitudinalCellNumber = 1)
               => correctionFactor = 640
        /\ longitudinalCellNumber \notin 1..16 => correctionFactor = 1000
        /\ 0 < correctionFactor /\ correctionFactor <= 1000

C5_Witness ==
    /\ pc = "returned"
    /\ arrangement = "aligned"
    /\ longitudinalCellNumber = 16
    /\ correctionFactor = 990

----------------------------------------------------------------------------
(* constantCalculation called on its own, then nusseltNumberCalculation   *)
(* on the constants it returned                                           *)

\* the limits of the Reynolds-number bands of constantCalculation
ReynoldsLimits == {10, 100, 1000, 200000, 2000000}

\* how far around each limit the Reynolds numbers are tried
ReynoldsSpread == 1

\* Reynolds numbers at and next to every limit, and inside every band
ReynoldsPoints ==
    {l + k : l \in ReynoldsLimits, k \in (-ReynoldsSpread)..ReynoldsSpread}
        \cup {1, 50, 500, 35462, 1000000, 3000000}

\* pitches giving the ratios below, at and above .7 and 2
PitchPoints == {70, 100, 200, 300}

\* a call constantCalculation(maxReynolds, transversePitch, longitudinalPitch,
\* arrangement); the other arguments of nusseltNumberCalculation are those of
\* Main.py's configuration
InitConstants ==
    /\ cellNumber = 180
    /\ transversePitch \in PitchPoints
    /\ longitudinalPitch \in PitchPoints
    /\ cellDiameter = 185
    /\ cellLength = 32535
    /\ numberLongitudinal = 45
    /\ numberTransverse = 4
    /\ freestreamTemp = 3000
    /\ velocity = 250
    /\ surfaceTemp = 6000
    /\ arrangement \in Arrangements
    /\ diametricalPitch = 0
    /\ longitudinalCellNumber = 10
    /\ filmTemperature = 4500
    /\ fluidDensity = Unset
    /\ correctionFactor = correctionFactorCalc(arrangement, longitudinalCellNumber)
    /\ dynamicViscosity = Unset
    /\ maxReynolds \in ReynoldsPoints
    /\ freestreamPrandtl = prandtlNumberCalculation(surfaceTemp, freestreamTemp,
                                                   filmTemperature)[1]
    /\ surfacePrandtl = prandtlNumberCalculation(surfaceTemp, freestreamTemp,
                                                filmTemperature)[2]
    /\ filmPrandtl = prandtlNumberCalculation(surfaceTemp, freestreamTemp,
                                             filmTemperature)[3]
    /\ constantOne = Unset
    /\ constantTwo = Unset
    /\ nusseltNumber = Unset
    /\ fluidThermalConductivity = Unset
    /\ hBar = Unset
    /\ specificHeat = Unset
    /\ exitTemp = UnsetTemp
    /\ logMeanTempDif = Unset
    /\ totalHeatTransfer = Unset
    /\ pc = "constantCalculation"
    /\ stdout = << >>
    /\ error = "none"
    /\ nusseltCorrelation = "none"

CallConstantCalculation ==
    ConstantStep("constantCalculation", "nusseltNumberCalculation")

CallNusseltNumberCalculation ==
    NusseltStep("nusseltNumberCalculation", "returned")

NextConstants == CallConstantCalculation \/ CallNusseltNumberCalculation

SpecConstants == InitConstants /\ [][NextConstants]_vars

\* constantCalculation has returned
ConstantsReturned == pc \in {"nusseltNumberCalculation", "returned"}

Printed(message) == \E i \in DOMAIN stdout : stdout[i] = message

\* C1: whatever the pitches, for Re in [10,100) aligned gives (0.80,0.40)
\* and staggered (0.90,0.40); for Re in [100,1000) both give (0,0) and
\* nothing is printed; for Re in [2e5,2e6) aligned gives (0.021,0.84) and
\* staggered (0.022,0.84).
C1_RegimeTable ==
    ConstantsReturned =>
        /\ (10 <= maxReynolds /\ maxReynolds < 100) =>
               /\ constantOne = (IF arrangement = "aligned" THEN 800 ELSE 900)
               /\ constantTwo = 400
        /\ (100 <= maxReynolds /\ maxReynolds < 1000) =>
               /\ constantOne = 0
               /\ constantTwo = 0
               /\ stdout = << >>
        /\ (200000 <= maxReynolds /\ maxReynolds < 2000000) =>
               /\ constantOne = (IF arrangement = "aligned" THEN 21 ELSE 22)
               /\ constantTwo = 840

C1_Witness ==
    /\ ConstantsReturned
    /\ arrangement = "staggered"
    /\ maxReynolds = 1999999
    /\ transversePitch = 2 * longitudinalPitch
    /\ constantOne = 22
    /\ constantTwo = 840

\* the aligned arrangement with Re in [1000,2e5)
AlignedMidBand ==
    /\ ConstantsReturned
    /\ arrangement = "aligned"
    /\ 1000 <= maxReynolds /\ maxReynolds < 200000

\* C2 as stated: aligned, Re in [1000,2e5): (0.27,0.63) when the pitch
\* ratio is above 0.7; in every other case, the ratio 0.7 included, the
\* "aligned tubes are inefficient" line is printed and (0,0) returned.
C2_AsStated ==
    AlignedMidBand =>
        IF 10 * transversePitch > 7 * longitudinalPitch
        THEN constantOne = 270 /\ constantTwo = 630
        ELSE /\ Printed(AlignedInefficient)
             /\ constantOne = 0
             /\ constantTwo = 0

\* C2 amended: aligned, Re in [1000,2e5): (0.27,0.63) when the pitch ratio
\* is above 0.7; the line is printed and (0,0) returned when the ratio is
\* below 0.7; at the ratio 0.7 no branch matches: (0,0) is returned and
\* nothing is printed.
C2_Amended ==
    AlignedMidBand =>
        /\ 10 * transversePitch > 7 * longitudinalPitch =>
               constantOne = 270 /\ constantTwo = 630 /\ stdout = << >>
        /\ 10 * transversePitch < 7 * longitudinalPitch =>
               /\ stdout = <<AlignedInefficient>>
               /\ constantOne = 0
               /\ constantTwo = 0
        /\ 10 * transversePitch = 7 * longitudinalPitch =>
               constantOne = 0 /\ constantTwo = 0 /\ stdout = << >>

C2_Witness ==
    /\ AlignedMidBand
    /\ transversePitch = 70
    /\ longitudinalPitch = 100
    /\ constantOne = 0
    /\ constantTwo = 0
    /\ stdout = << >>

\* a * b / 1000 on numbers in 1e-3
Product(a, b) == MulDiv(a, b, 1000)

\* c is 0.35 * (tPitch/lPitch)^0.2 to within the rounding of the model:
\* the fifth power of c/0.35 is the pitch ratio to 2 per cent
IsFifthRootConstant(c, tPitch, lPitch) ==
    LET root   == (c * 1000) \div 350
        square == Product(root, root)
        fifth  == Product(Product(square, square), root)
        ratio  == (tPitch * 1000) \div lPitch
    IN  50 * Abs(fifth - ratio) <= ratio

\* C3: staggered, Re in [1000,2e5): m = 0.60 and C = 0.35 * ratio^0.2 when
\* ratio = transversePitch/longitudinalPitch < 2; (0.40,0.60) when ratio >
\* 2; at ratio = 2 no branch matches: (0,0) and nothing printed.
C3_StaggeredMidBand ==
    (/\ ConstantsReturned
     /\ arrangement = "staggered"
     /\ 1000 <= maxReynolds /\ maxReynolds < 200000) =>
        /\ transversePitch < 2 * longitudinalPitch =>
               /\ constantTwo = 600
               /\ IsFifthRootConstant(constantOne, transversePitch,
                                      longitudinalPitch)
        /\ transversePitch > 2 * longitudinalPitch =>
               constantOne = 400 /\ constantTwo = 600
        /\ transversePitch = 2 * longitudinalPitch =>
               constantOne = 0 /\ constantTwo = 0 /\ stdout = << >>

C3_Witness ==
    /\ ConstantsReturned
    /\ arrangement = "staggered"
    /\ maxReynolds = 1000
    /\ transversePitch = 200
    /\ longitudinalPitch = 100
    /\ constantOne = 0
    /\ constantTwo = 0
    /\ stdout = << >>

\* C4: for either arrangement "too large" is printed exactly when Re > 2e6
\* and "too small" exactly when Re < 10; in both cases the call still
\* returns, with (0,0), and nusseltNumberCalculation on those constants
\* uses the single-cylinder correlation.
C4_RangeDiagnostics ==
    /\ pc # "raised"
    /\ ConstantsReturned =>
        /\ Printed(ReynoldsTooLarge) <=> maxReynolds > 2000000
        /\ Printed(ReynoldsTooSmall) <=> maxReynolds < 10
        /\ (maxReynolds > 2000000 \/ maxReynolds < 10) =>
               /\ constantOne = 0
               /\ constantTwo = 0
               /\ error = "none"
               /\ pc = "returned" => nusseltCorrelation = "cylinder"

C4_Witness ==
    /\ pc = "returned"
    /\ maxReynolds = 2000001
    /\ stdout = <<ReynoldsTooLarge>>
    /\ constantOne = 0
    /\ constantTwo = 0
    /\ nusseltCorrelation = "cylinder"

----------------------------------------------------------------------------
(* findMaxReynolds called on its own *)

ReynoldsDiameters == {180, 185}

ReynoldsTransversePitches == {150, 185, 200, 225}

ReynoldsDiametricalPitches == {0, 180, 203, 250}

\* the velocities tried are 0.01 * 5^k m/s for k up to this
MaxVelocityPower == 4

ReynoldsVelocities == {5^k : k \in 0..MaxVelocityPower}

\* a call findMaxReynolds(fluidDensity, cellDiameter, dynamicViscosity,
\* transversePitch, velocity, diametricalPitch) with the air properties of
\* Main.py's temperatures
InitReynolds ==
    /\ cellNumber = 180
    /\ transversePitch \in ReynoldsTransversePitches
    /\ longitudinalPitch = 185
    /\ cellDiameter \in ReynoldsDiameters
    /\ cellLength = 32535
    /\ numberLongitudinal = 45
    /\ numberTransverse = 4
    /\ freestreamTemp = 3000
    /\ velocity \in ReynoldsVelocities
    /\ surfaceTemp = 6000
    /\ arrangement = "aligned"
    /\ diametricalPitch \in ReynoldsDiametricalPitches
    /\ longitudinalCellNumber = 10
    /\ filmTemperature = 4500
    /\ fluidDensity = calculateFluidDensity(surfaceTemp, freestreamTemp)
    /\ correctionFactor = Unset
    /\ dynamicViscosity = calculateDynamicViscosity(surfaceTemp, freestreamTemp)
    /\ maxReynolds = Unset
    /\ freestreamPrandtl = Unset
    /\ surfacePrandtl = Unset
    /\ filmPrandtl = Unset
    /\ constantOne = Unset
    /\ constantTwo = Unset
    /\ nusseltNumber = Unset
    /\ fluidThermalConductivity = Unset
    /\ hBar = Unset
    /\ specificHeat = Unset
    /\ exitTemp = UnsetTemp
    /\ logMeanTempDif = Unset
    /\ totalHeatTransfer = Unset
    /\ pc = "findMaxReynolds"
    /\ stdout = << >>
    /\ error = "none"
    /\ nusseltCorrelation = "none"

CallFindMaxReynolds == ReynoldsStep("findMaxReynolds", "returned")

NextReynolds == CallFindMaxReynolds

SpecReynolds == InitReynolds /\ [][NextReynolds]_vars

\* the staggered example: diametricalPitch 20.3 mm, transversePitch 22.5 mm,
\* cellDiameter 18 mm, any positive velocity
ExampleGeometry ==
    /\ diametricalPitch = 203
    /\ transversePitch = 225
    /\ cellDiameter = 180
    /\ velocity > 0

\* C6 as stated: on the example geometry v2 = velocity * transversePitch /
\* (2 * (diametricalPitch - cellDiameter)) is strictly greater than v1 =
\* velocity * transversePitch / (transversePitch - cellDiameter), and the
\* returned Reynolds number is the one of v2.
C6_AsStated ==
    (pc = "returned" /\ ExampleGeometry) =>
        LET v1 == velocity1(transversePitch, cellDiameter, velocity)
            v2 == velocity2(transversePitch, diametricalPitch, cellDiameter,
                            velocity)
        IN  /\ v2 > v1
            /\ maxReynolds = ReynoldsOf(fluidDensity, v2, cellDiameter,
                                        dynamicViscosity)

\* C6 amended: on the example geometry v1 = 22.5/4.5 = 5 times the velocity
\* and v2 = 22.5/4.6 times the velocity is strictly smaller, so the returned
\* Reynolds number is the one of the transverse velocity v1.
C6_Amended ==
    (pc = "returned" /\ ExampleGeometry) =>
        LET v1 == velocity1(transversePitch, cellDiameter, velocity)
            v2 == velocity2(transversePitch, diametricalPitch, cellDiameter,
                            velocity)
        IN  /\ v1 = 5 * velocity
            /\ 46 * v2 <= 225 * velocity
            /\ v2 < v1
            /\ maxReynolds = ReynoldsOf(fluidDensity, 5 * velocity,
                                        cellDiameter, dynamicViscosity)

C6_Witness ==
    /\ pc = "returned"
    /\ ExampleGeometry
    /\ velocity = 25
    /\ maxReynolds > 0
    /\ error = "none"

----------------------------------------------------------------------------
(* calculateLogMeanTempDifference called on its own *)

LogMeanTemperatures == {2000, 3000, 4500, 6000, 7000}

\* a call calculateLogMeanTempDifference(surfaceTemp, freestreamTemp, exitTemp)
InitLogMean ==
    /\ cellNumber = 180
    /\ transversePitch = 200
    /\ longitudinalPitch = 185
    /\ cellDiameter = 185
    /\ cellLength = 32535
    /\ numberLongitudinal = 45
    /\ numberTransverse = 4
    /\ freestreamTemp \in LogMeanTemperatures
    /\ velocity = 250
    /\ surfaceTemp \in LogMeanTemperatures
    /\ arrangement = "aligned"
    /\ diametricalPitch = 0
    /\ longitudinalCellNumber = 10
    /\ filmTemperature = 4500
    /\ fluidDensity = Unset
    /\ correctionFactor = Unset
    /\ dynamicViscosity = Unset
    /\ maxReynolds = Unset
    /\ freestreamPrandtl = Unset
    /\ surfacePrandtl = Unset
    /\ filmPrandtl = Unset
    /\ constantOne = Unset
    /\ constantTwo = Unset
    /\ nusseltNumber = Unset
    /\ fluidThermalConductivity = Unset
    /\ hBar = Unset
    /\ specificHeat = Unset
    /\ exitTemp \in {Temp(t) : t \in LogMeanTemperatures}
    /\ logMeanTempDif = Unset
    /\ totalHeatTransfer = Unset
    /\ pc = "calculateLogMeanTempDifference"
    /\ stdout = << >>
    /\ error = "none"
    /\ nusseltCorrelation = "none"

CallCalculateLogMeanTempDifference ==
    LogMeanStep("calculateLogMeanTempDifference", "returned")

NextLogMean == CallCalculateLogMeanTempDifference

SpecLogMean == InitLogMean /\ [][NextLogMean]_vars

\* the call has ended, by returning or by raising
LogMeanEnded == pc \in {"returned", "raised"}

\* it raised the division or the domain error and returned nothing
LogMeanFailed ==
    /\ pc = "raised"
    /\ error \in {"ZeroDivisionError", "ValueError"}
    /\ logMeanTempDif = Unset

\* C7 as stated: the call fails with a division-by-zero or math-domain
\* error, and returns no value, whenever deltaOne = deltaTwo or either
\* deltaOne = surfaceTemp - freestreamTemp or deltaTwo = surfaceTemp -
\* exitTemp is <= 0; so it fails whenever surfaceTemp = freestreamTemp.
C7_AsStated ==
    LET deltaOne == surfaceTemp - freestreamTemp
        deltaTwo == surfaceTemp - exitTemp.base
    IN  (LogMeanEnded /\ (deltaOne = deltaTwo \/ deltaOne <= 0 \/ deltaTwo <= 0))
            => LogMeanFailed

\* C7 amended: the call fails with a division-by-zero or math-domain error,
\* and returns no value, whenever deltaOne = deltaTwo, either delta is 0,
\* or the two deltas have opposite signs, so whenever surfaceTemp =
\* freestreamTemp; when both deltas are negative and different it returns
\* a (negative) value.
C7_Amended ==
    LET deltaOne == surfaceTemp - freestreamTemp
        deltaTwo == surfaceTemp - exitTemp.base
    IN  LogMeanEnded =>
            /\ (\/ deltaOne = deltaTwo
                \/ deltaOne = 0
                \/ deltaTwo = 0
                \/ (deltaOne < 0) # (deltaTwo < 0)) => LogMeanFailed
            /\ surfaceTemp = freestreamTemp => LogMeanFailed
            /\ (deltaOne < 0 /\ deltaTwo < 0 /\ deltaOne # deltaTwo) =>
                   /\ pc = "returned"
                   /\ error = "none"
                   /\ IsNumber(logMeanTempDif)
                   /\ logMeanTempDif < 0

C7_Witness ==
    /\ pc = "returned"
    /\ surfaceTemp = 3000
    /\ freestreamTemp = 6000
    /\ exitTemp = Temp(4500)
    /\ logMeanTempDif < 0
    /\ IsNumber(logMeanTempDif)

----------------------------------------------------------------------------
(* The property lookups called on their own *)

PropertyCalls ==
    {"calculateFluidDensity", "calculateDynamicViscosity",
     "fluidThermalConductivityCalculation", "calculateFluidSpecificHeat",
     "prandtlNumberCalculation"}

\* surface and freestream temperatures whose means fall on breakpoints of
\* each table, and between them
PropertyTemperatures == {0, 1000, 2690, 5000, 6690}

\* film temperatures passed to prandtlNumberCalculation
FilmTemperatures == {0, 690, 4500, 12690}

\* a call of one property function on (surfaceTemp, freestreamTemp), and for
\* prandtlNumberCalculation a film temperature
InitProperties ==
    /\ cellNumber = 180
    /\ transversePitch = 200
    /\ longitudinalPitch = 185
    /\ cellDiameter = 185
    /\ cellLength = 32535
    /\ numberLongitudinal = 45
    /\ numberTransverse = 4
    /\ freestreamTemp \in PropertyTemperatures
    /\ velocity = 250
    /\ surfaceTemp \in PropertyTemperatures
    /\ arrangement = "aligned"
    /\ diametricalPitch = 0
    /\ longitudinalCellNumber = 10
    /\ filmTemperature \in FilmTemperatures
    /\ fluidDensity = Unset
    /\ correctionFactor = Unset
    /\ dynamicViscosity = Unset
    /\ maxReynolds = Unset
    /\ freestreamPrandtl = Unset
    /\ surfacePrandtl = Unset
    /\ filmPrandtl = Unset
    /\ constantOne = Unset
    /\ constantTwo = Unset
    /\ nusseltNumber = Unset
    /\ fluidThermalConductivity = Unset
    /\ hBar = Unset
    /\ specificHeat = Unset
    /\ exitTemp = UnsetTemp
    /\ logMeanTempDif = Unset
    /\ totalHeatTransfer = Unset
    /\ pc \in PropertyCalls
    /\ stdout = << >>
    /\ error = "none"
    /\ nusseltCorrelation = "none"

CallCalculateFluidDensity == DensityStep("calculateFluidDensity", "returned")

CallCalculateDynamicViscosity ==
    ViscosityStep("calculateDynamicViscosity", "returned")

CallFluidThermalConductivityCalculation ==
    ConductivityStep("fluidThermalConductivityCalculation", "returned")

CallCalculateFluidSpecificHeat ==
    SpecificHeatStep("calculateFluidSpecificHeat", "returned")

CallPrandtlNumberCalculation ==
    PrandtlStep("prandtlNumberCalculation", "returned")

NextProperties ==
    \/ CallCalculateFluidDensity
    \/ CallCalculateDynamicViscosity
    \/ CallFluidThermalConductivityCalculation
    \/ CallCalculateFluidSpecificHeat
    \/ CallPrandtlNumberCalculation

SpecProperties == InitProperties /\ [][NextProperties]_vars

AtBreakpoint(x, xp) == \E i \in DOMAIN xp : xp[i] = x

\* the table value at the breakpoint x
Tabulated(x, xp, fp) == fp[CHOOSE i \in DOMAIN xp : xp[i] = x]

\* C9: a lookup at a breakpoint of its table returns the table value there
\* (in the unit of the result): density, viscosity, thermal conductivity
\* and specific heat at the film temperature, and the freestream, surface
\* and film Prandtl numbers, the film one at 0 degC (0.711) included.
C9_ExactAtBreakpoints ==
    LET film == (surfaceTemp + freestreamTemp) \div 2
    IN  pc = "returned" =>
        /\ (fluidDensity # Unset /\ AtBreakpoint(film, celsiusDataPoints)) =>
               fluidDensity =
                   Tabulated(film, celsiusDataPoints, densityDataPoints)
        /\ (dynamicViscosity # Unset /\ AtBreakpoint(film, celsiusDataPoints)) =>
               dynamicViscosity =
                   10 * Tabulated(film, celsiusDataPoints,
                                  dynamicViscosityDataPoints)
        /\ (/\ fluidThermalConductivity # Unset
            /\ AtBreakpoint(film, celsiusDataPoints)) =>
               fluidThermalConductivity =
                   10 * Tabulated(film, celsiusDataPoints,
                                  thermalConductivityDataPoints)
        /\ (/\ specificHeat # Unset
            /\ AtBreakpoint(film, specificHeatCelsiusDataPoints)) =>
               10 * specificHeat =
                   Tabulated(film, specificHeatCelsiusDataPoints,
                             specificHeatDataPoints)
        /\ (/\ freestreamPrandtl # Unset
            /\ AtBreakpoint(freestreamTemp, prandtlCelsiusDataPoints)) =>
               freestreamPrandtl =
                   Tabulated(freestreamTemp, prandtlCelsiusDataPoints,
                             prandtlNumberDataPoints)
        /\ (/\ surfacePrandtl # Unset
            /\ AtBreakpoint(surfaceTemp, prandtlCelsiusDataPoints)) =>
               surfacePrandtl =
                   Tabulated(surfaceTemp, prandtlCelsiusDataPoints,
                             prandtlNumberDataPoints)
        /\ (/\ filmPrandtl # Unset
            /\ AtBreakpoint(filmTemperature, prandtlCelsiusDataPoints)) =>
               /\ filmPrandtl =
                      Tabulated(filmTemperature, prandtlCelsiusDataPoints,
                                prandtlNumberDataPoints)
               /\ filmTemperature = 0 => filmPrandtl = 71100

----------------------------------------------------------------------------
(* Properties of the whole run of Main.py *)

\* findMaxReynolds has returned: the run is at or past line 21
PastReynolds ==
    pc \in {"L21", "L22", "L23", "L24", "L25", "L26", "L27", "L28", "L29",
            "L30", "done"}

\* C8: with transversePitch <= cellDiameter the computation aborts:
\* findMaxReynolds returns no Reynolds number and the run never reaches the
\* correlation selector nor produces an exit temperature or a heat
\* transfer.
C8_AbortsOnInvalidGeometry ==
    (transversePitch <= cellDiameter /\ cellDiameter > 0 /\ transversePitch > 0
     /\ velocity > 0) =>
        /\ maxReynolds = Unset
        /\ ~PastReynolds
        /\ exitTemp = UnsetTemp
        /\ totalHeatTransfer = Unset

\* t < c and t > c for a temperature t in the form of calculateExitTemp's
\* result and a plain temperature c
TempBelow(t, c) ==
    IF t.gapSign = 0 THEN t.base < c
    ELSE IF t.gapSign > 0
    THEN t.base <= c \/ t.gapLn > Ln(t.base - c, 100)
    ELSE t.base < c /\ t.gapLn < Ln(c - t.base, 100)

TempAbove(t, c) ==
    IF t.gapSign = 0 THEN t.base > c
    ELSE IF t.gapSign > 0
    THEN t.base > c /\ t.gapLn < Ln(t.base - c, 100)
    ELSE t.base >= c \/ t.gapLn > Ln(c - t.base, 100)

\* calculateExitTemp has returned
ExitTempReturned == exitTemp # UnsetTemp

\* C10: for a heating flow with valid geometry and positive velocity,
\* density, specific heat and convective coefficient the exit temperature
\* is strictly between the freestream and the surface temperature, so
\* that the log-mean temperature difference and the total heat transfer
\* that follow are defined and finite.
C10_ExitStrictlyBetween ==
    (/\ ExitTempReturned
     /\ surfaceTemp > freestreamTemp
     /\ transversePitch > cellDiameter
     /\ velocity > 0
     /\ fluidDensity > 0
     /\ specificHeat > 0
     /\ IsNumber(hBar) /\ hBar > 0) =>
        /\ TempBelow(exitTemp, surfaceTemp)
        /\ TempAbove(exitTemp, freestreamTemp)
        /\ pc # "raised"
        /\ pc \in {"L29", "L30", "done"} => IsNumber(logMeanTempDif)
        /\ pc \in {"L30", "done"} => IsNumber(totalHeatTransfer)

\* C11: in the run of Main.py the correction factor applied to the Nusselt
\* number is the one of the configured geometry: once assigned it equals
\* correctionFactorCalc(arrangement, numberLongitudinal), the table entry
\* of the configured number of rows in the flow direction, and it is 1.0
\* whenever numberLongitudinal > 16.
C11_ConfiguredCorrectionFactor ==
    correctionFactor # Unset =>
        /\ correctionFactor = correctionFactorCalc(arrangement,
                                                   numberLongitudinal)
        /\ numberLongitudinal > 16 => correctionFactor = 1000

====
